---- MODULE Spec2Model ----
(***************************************************************************)
(* RemoteAgent (src/agent.py): proprioception history, the REQ session to  *)
(* the model server, the delta-to-absolute transform, the gripper          *)
(* transition expansion and the action queue.                              *)
(*                                                                         *)
(* Numbers.  Positions are integer triples (units of one translation       *)
(* step).  Angles are integers in units of a quarter turn, in -1..2, so    *)
(* that sin, cos and atan2 are exact and rotation matrices have entries in *)
(* {-1,0,1}.  Gripper values are integers (+1 open, -1 close, 0 no change);*)
(* the float -0.0 produced by negating 0.0 compares equal to 0.0 and is    *)
(* the integer 0 here.                                                     *)
(***************************************************************************)
EXTENDS Integers, Sequences, FiniteSets, TLC

VARIABLES
  proprio_history,  \* self.proprio_history: deque(maxlen=4) of frames
  instruction,      \* self.instruction
  pred_actions,     \* self.pred_actions: deque of [ref, bbox]; ref addresses heap
  heap,             \* the numpy arrays the queue entries reference
  finger_state,     \* self.finger_state
  awaiting,         \* REQ socket: a request was sent and no reply received yet
  ret,              \* outcome of the last step call (returned value or exception)
  calls,            \* socket calls issued by the last step call, in order
  request,          \* the message the socket accepted from the last step call
  response,         \* the object recv_pyobj returned to the last step call
  enqueued,         \* values appended to pred_actions by the last step call, in call order
  dec,              \* decoding loop of _post_and_get, one entry at a time
  fed,              \* frames passed to the buffer so far
  ctor,             \* __init__: its arguments, how far it got, what it opened
  pose,             \* _delta_to_abs on its own: the start pose, the deltas, the results
  episode,          \* run_episode: its position, its counters, the calls it made
  video,            \* the VideoLogger: its fields and the files it produced
  seeds             \* parallel_eval: the seed files written so far

vars == <<proprio_history, instruction, pred_actions, heap, finger_state,
          awaiting, ret, calls, request, response, enqueued, dec, fed, ctor,
          pose, episode, video, seeds>>

(***************************************************************************)
(* Constants of the class                                                  *)
(***************************************************************************)
PROPRIO_HISTORY_SIZE == 4

GRIPPER_OPEN == 1

GRIP_TRANSITION_ACTIONS == 4

(***************************************************************************)
(* Bounds of the model                                                     *)
(***************************************************************************)
MaxChunk == 2

PlanMaxChunk == 3

MaxFed == 6

(***************************************************************************)
(* Quarter-turn trigonometry                                               *)
(***************************************************************************)
Angles == {-1, 0, 1, 2}

Sin(a) == CASE a = 0 -> 0 [] a = 1 -> 1 [] a = 2 -> 0 [] a = -1 -> -1

Cos(a) == CASE a = 0 -> 1 [] a = 1 -> 0 [] a = 2 -> -1 [] a = -1 -> 0

\* atan2(y, x) for (y, x) on the axes; atan2(0, 0) = 0 as in libm
Atan2(y, x) ==
  CASE y = 0 /\ x >= 0 -> 0
    [] y > 0 /\ x = 0 -> 1
    [] y = 0 /\ x < 0 -> 2
    [] y < 0 /\ x = 0 -> -1

\* sqrt of a sum of two squares of entries in {-1,0,1} that is 0 or 1
Sqrt01(n) == IF n = 0 THEN 0 ELSE 1

\* transforms3d.euler.euler2mat(ai, aj, ak), axes 'sxyz'
Euler2Mat(e) ==
  LET si == Sin(e[1])  sj == Sin(e[2])  sk == Sin(e[3])
      ci == Cos(e[1])  cj == Cos(e[2])  ck == Cos(e[3])
      cc == ci * ck    cs == ci * sk
      sc == si * ck    ss == si * sk
  IN << << cj * ck, sj * sc - cs, sj * cc + ss >>,
        << cj * sk, sj * ss + cc, sj * cs - sc >>,
        << -sj,     cj * si,      cj * ci      >> >>

\* variant: the branch for cy = 0 is missing
Mat2EulerNoGimbal(M) ==
  LET cy == Sqrt01(M[1][1] * M[1][1] + M[2][1] * M[2][1])
  IN << Atan2(M[3][2], M[3][3]), Atan2(-M[3][1], cy), Atan2(M[2][1], M[1][1]) >>

\* transforms3d.euler.mat2euler(mat), axes 'sxyz'
Mat2Euler(M) ==
  LET cy == Sqrt01(M[1][1] * M[1][1] + M[2][1] * M[2][1])
  IN IF cy > 0
       THEN << Atan2(M[3][2], M[3][3]), Atan2(-M[3][1], cy), Atan2(M[2][1], M[1][1]) >>
       ELSE << Atan2(-M[2][3], M[2][2]), Atan2(-M[3][1], cy), 0 >>

\* numpy matrix product A @ B of 3x3 matrices
MatMul(A, B) ==
  [i \in 1..3 |-> [j \in 1..3 |->
      A[i][1] * B[1][j] + A[i][2] * B[2][j] + A[i][3] * B[3][j]]]

\* variant: the delta is subtracted
VecSub(u, v) == << u[1] - v[1], u[2] - v[2], u[3] - v[3] >>

VecAdd(u, v) == << u[1] + v[1], u[2] + v[2], u[3] + v[3] >>

(***************************************************************************)
(* _delta_to_abs: a 7-array [t, r, g] from a delta and a 6-pose [t, r]     *)
(***************************************************************************)
\* variant: the translation delta is taken in the end-effector frame
DeltaToAbsRotatesTranslation(delta_action, current_pose) ==
  LET current_rot == Euler2Mat(current_pose.r)
      next_rot    == MatMul(Euler2Mat(delta_action.r), current_rot)
      moved       == [i \in 1..3 |-> current_rot[i][1] * delta_action.t[1]
                                     + current_rot[i][2] * delta_action.t[2]
                                     + current_rot[i][3] * delta_action.t[3]]
      next_trans  == VecAdd(current_pose.t, moved)
  IN [t |-> next_trans, r |-> Mat2Euler(next_rot), g |-> delta_action.g]

\* variant: the delta rotation is multiplied on the right
DeltaToAbsRightMultiply(delta_action, current_pose) ==
  LET current_rot == Euler2Mat(current_pose.r)
      next_rot    == MatMul(current_rot, Euler2Mat(delta_action.r))
      next_trans  == VecAdd(current_pose.t, delta_action.t)
  IN [t |-> next_trans, r |-> Mat2Euler(next_rot), g |-> delta_action.g]

DeltaToAbs(delta_action, current_pose) ==
  LET current_rot == Euler2Mat(current_pose.r)
      next_rot    == MatMul(Euler2Mat(delta_action.r), current_rot)
      next_trans  == VecAdd(current_pose.t, delta_action.t)
  IN [t |-> next_trans, r |-> Mat2Euler(next_rot), g |-> delta_action.g]

\* arr[:6]
Pose6(arr) == [t |-> arr.t, r |-> arr.r]

(***************************************************************************)
(* Inputs: observations (forward-kinematics results), server responses     *)
(***************************************************************************)
\* obs['robot0_joint_pos'] through ik_solver.fk: ee_position and the rotation
\* of ee_quaternion
FKPoses ==
  { [t |-> <<0, 0, 0>>, R |-> Euler2Mat(<<2, 0, 0>>)],
    [t |-> <<1, 0, 0>>, R |-> Euler2Mat(<<0, 0, 1>>)] }

Grips == {-1, 0, 1}

DeltaPoses ==
  { [t |-> <<1, 0, 0>>, r |-> <<0, 0, 0>>],
    [t |-> <<0, 0, -1>>, r |-> <<0, 1, 0>>] }

\* an entry of response['result'] of fewer than six scalars: euler2mat(*delta[3:6])
\* raises TypeError inside _delta_to_abs
BadEntry == [ok |-> FALSE, t |-> <<0, 0, 0>>, r |-> <<0, 0, 0>>, g |-> 0]

Entries ==
  { [ok |-> TRUE, t |-> p.t, r |-> p.r, g |-> g] : p \in DeltaPoses, g \in Grips }
    \cup {BadEntry}

\* the entries the responses of the agent specification are built from: the
\* translation-only delta with no gripper change, the rotating delta with a
\* gripper target, and the malformed entry
StepEntries ==
  { e \in Entries : ~e.ok \/ (e.r = <<0, 0, 0>> /\ e.g = 0)
                          \/ (e.r # <<0, 0, 0>> /\ e.g # 0) }

ChunksOf(E, n) == UNION { [1..k -> E] : k \in 0..n }

BBoxes == {"bboxA", "bboxB"}

NoBBox == "none"

\* the chunks of the agent specification: the loop stops at the first entry
\* it cannot convert and never reads the entries after it, so a malformed
\* entry is the last one of its chunk
StepChunks(n) ==
  { c \in ChunksOf(StepEntries, n) : \A k \in DOMAIN c : k < Len(c) => c[k].ok }

\* the complete replies: every chunk with one bounding-box payload, and the
\* chunks of at most one entry with the other one as well
Replies ==
  { [kind |-> "ok", bbox |-> "bboxA", result |-> c] : c \in StepChunks(MaxChunk) }
    \cup { [kind |-> "ok", bbox |-> "bboxB", result |-> c] : c \in StepChunks(1) }

\* what recv_pyobj yields: no reply within RCVTIMEO, a reply without
\* ['debug']['bbox'], a reply without ['result'], or a complete reply
Responses ==
  { [kind |-> k, bbox |-> NoBBox, result |-> << >>] : k \in {"timeout", "no_debug"} }
    \cup { [kind |-> "no_result", bbox |-> b, result |-> << >>] : b \in BBoxes }
    \cup Replies

Instructions == {"pick up apple", "pick up bowl"}

(***************************************************************************)
(* get_current_proprio and _process_proprio                                *)
(***************************************************************************)
\* quat2euler(q, 'sxyz') = mat2euler(quat2mat(q)); the frame carries self.finger_state
GetCurrentProprio(obs, fs) == [t |-> obs.t, r |-> Mat2Euler(obs.R), g |-> fs]

\* variant: a deque without maxlen, nothing is ever discarded
DequeAppendNoEvict(d, x, maxlen) == Append(d, x)

\* deque(maxlen).append: the leftmost element is discarded when full
DequeAppend(d, x, maxlen) ==
  IF Len(d) >= maxlen THEN Append(Tail(d), x) ELSE Append(d, x)

RECURSIVE PadHistory(_)
\* while len(h) < maxlen: h.append(h[-1])
PadHistory(h) ==
  IF Len(h) < PROPRIO_HISTORY_SIZE
    THEN PadHistory(DequeAppend(h, h[Len(h)], PROPRIO_HISTORY_SIZE))
    ELSE h

\* variant: the padding loop is missing
ProcessProprioNoPad(h, frame) == DequeAppend(h, frame, PROPRIO_HISTORY_SIZE)

\* variant: the frame is appended a second time
ProcessProprioTwice(h, frame) ==
  PadHistory(DequeAppend(DequeAppend(h, frame, PROPRIO_HISTORY_SIZE), frame,
                         PROPRIO_HISTORY_SIZE))

ProcessProprio(h, frame) ==
  PadHistory(DequeAppend(h, frame, PROPRIO_HISTORY_SIZE))

(***************************************************************************)
(* The decoding loop of _post_and_get.  A decoder state d holds the loop's *)
(* locals and the fields it writes: cur (current_pose), lfs                *)
(* (last_finger_state), fs (self.finger_state), q (self.pred_actions),     *)
(* heap, log (the values appended, in call order), exc (an entry raised).  *)
(***************************************************************************)
\* a fresh array holding v; its reference is Len of the new heap
Alloc(d, v) == [d EXCEPT !.heap = Append(@, v)]

\* np.copy(arr)
NpCopy(d, ref) == Alloc(d, d.heap[ref])

\* deque.append
QueueAppend(q, item) == Append(q, item)

\* self.pred_actions.append([arr, bbox])
Enqueue(d, ref, bbox) ==
  [d EXCEPT !.q = QueueAppend(@, [ref |-> ref, bbox |-> bbox]),
            !.log = Append(@, [act |-> d.heap[ref], bbox |-> bbox])]

\* append the array allocated last
EnqueueNewest(d, bbox) == Enqueue(d, Len(d.heap), bbox)

RECURSIVE GripBurstShared(_, _, _, _)
\* variant: abs_action itself is appended each time, without np.copy
GripBurstShared(d, ref, bbox, n) ==
  IF n = 0 THEN d
  ELSE GripBurstShared(Enqueue(d, ref, bbox), ref, bbox, n - 1)

RECURSIVE GripBurst(_, _, _, _)
\* for _ in range(n): self.pred_actions.append([np.copy(abs_action), bbox])
GripBurst(d, ref, bbox, n) ==
  IF n = 0 THEN d
  ELSE GripBurst(EnqueueNewest(NpCopy(d, ref), bbox), ref, bbox, n - 1)

\* variant: arm_action[6] = 0 is missing
ArmActionKeepsGripper(d, ref) == Alloc(d, d.heap[ref])

\* arm_action = np.copy(abs_action); arm_action[6] = 0
ArmAction(d, ref) == Alloc(d, [d.heap[ref] EXCEPT !.g = 0])

\* variant: self.finger_state = last_finger_state
CommitFingerPrevious(d, g) == [d EXCEPT !.fs = d.lfs]

\* self.finger_state = abs_action[6]
CommitFinger(d, g) == [d EXCEPT !.fs = g]

\* variant: self.finger_state is not assigned in the loop
TransitionDefersCommit(d, ref, bbox) ==
  GripBurst(EnqueueNewest(ArmAction(d, ref), bbox), ref, bbox, GRIP_TRANSITION_ACTIONS)

\* the else branch, lines 169-174
Transition(d, ref, bbox) ==
  CommitFinger(
    GripBurst(EnqueueNewest(ArmAction(d, ref), bbox), ref, bbox, GRIP_TRANSITION_ACTIONS),
    d.heap[ref].g)

\* variant: the test for 0 is missing
NoTransitionIgnoresZero(g, lfs) == g = lfs

\* the test of line 161
NoTransition(g, lfs) == g = 0 \/ g = lfs

\* variant: last_finger_state = abs_action[6] unconditionally
NextLastFingerAlways(g, lfs) == g

\* line 175
NextLastFinger(g, lfs) == IF g # 0 THEN g ELSE lfs

\* variant: line 175 is missing
SetLastFingerMissing(d, g) == d

SetLastFinger(d, g) == [d EXCEPT !.lfs = NextLastFinger(g, @)]

\* variant: an entry without a gripper transition is not appended
DecodeAbsSkipsNoChange(d, ref, bbox) ==
  SetLastFinger(
    IF NoTransition(d.heap[ref].g, d.lfs) THEN d ELSE Transition(d, ref, bbox),
    d.heap[ref].g)

\* variant: self.finger_state = abs_action[6] after either branch
DecodeAbsCommitsAlways(d, ref, bbox) ==
  SetLastFinger(
    CommitFinger(
      IF NoTransition(d.heap[ref].g, d.lfs)
        THEN Enqueue(d, ref, bbox)
        ELSE Transition(d, ref, bbox),
      d.heap[ref].g),
    d.heap[ref].g)

\* lines 160-175 for the array abs_action just allocated at ref
DecodeAbs(d, ref, bbox) ==
  SetLastFinger(
    IF NoTransition(d.heap[ref].g, d.lfs)
      THEN Enqueue(d, ref, bbox)
      ELSE Transition(d, ref, bbox),
    d.heap[ref].g)

\* current_pose = abs_action[:6]
SetCurrentPose(d) == [d EXCEPT !.cur = Pose6(d.heap[Len(d.heap)])]

\* one iteration of the loop body, lines 159-175
DecodeEntry(d, delta_action, bbox) ==
  IF ~delta_action.ok THEN [d EXCEPT !.exc = TRUE]
  ELSE DecodeAbs(SetCurrentPose(Alloc(d, DeltaToAbs(delta_action, d.cur))),
                 Len(d.heap) + 1, bbox)

RECURSIVE DecodeChunk(_, _, _)
\* for delta_action in response['result']: ...  (stops at the first exception)
DecodeChunk(d, chunk, bbox) ==
  IF chunk = << >> \/ d.exc THEN d
  ELSE DecodeChunk(DecodeEntry(d, Head(chunk), bbox), Tail(chunk), bbox)

\* lines 156-157: the loop's initial state
DecodeStart(hist, fs, q, h) ==
  [cur |-> Pose6(hist[Len(hist)]), lfs |-> fs, fs |-> fs,
   q |-> q, heap |-> h, log |-> << >>, exc |-> FALSE]

(***************************************************************************)
(* _post_and_get on the REQ socket.  The result is a record of what the    *)
(* call leaves behind: exc ("" when it returns), awaiting, q, heap, fs,    *)
(* calls, request, log.                                                    *)
(***************************************************************************)
NoRequest == [proprio_array |-> << >>, text |-> ""]

\* variant: a fixed instruction is sent instead of self.instruction
RequestDataFixedText(hist, text) == [proprio_array |-> hist, text |-> "pick up apple"]

\* lines 146-151 (the images are not modelled)
RequestData(hist, text) == [proprio_array |-> hist, text |-> text]

NoResponse == [kind |-> "none", bbox |-> NoBBox, result |-> << >>]

\* what a call leaves behind when every entry was decoded or one raised
Decoded(d, data, resp) ==
  [exc |-> IF d.exc THEN "TypeError" ELSE "", awaiting |-> FALSE,
   q |-> d.q, heap |-> d.heap, fs |-> d.fs,
   calls |-> <<"send", "recv">>, request |-> data, response |-> resp, log |-> d.log]

\* variant: the exchange is wrapped in a try/except that swallows the exception
FailedSwallowed(data, resp, fs, q, h, e, cs, waiting) ==
  [exc |-> "", awaiting |-> waiting, q |-> q, heap |-> h, fs |-> fs,
   calls |-> cs, request |-> data, response |-> resp, log |-> << >>]

\* what a call leaves behind when it raises before the loop
Failed(data, resp, fs, q, h, e, cs, waiting) ==
  [exc |-> e, awaiting |-> waiting, q |-> q, heap |-> h, fs |-> fs,
   calls |-> cs, request |-> data, response |-> resp, log |-> << >>]

PostAndGet(hist, text, fs, q, h, waiting, resp) ==
  IF waiting
    \* send_pyobj on a REQ socket whose last request has no reply: EFSM
    THEN Failed(NoRequest, NoResponse, fs, q, h, "ZMQError", <<"send">>, TRUE)
  ELSE IF resp.kind = "timeout"
    \* recv_pyobj: nothing within RCVTIMEO
    THEN Failed(RequestData(hist, text), NoResponse, fs, q, h,
                "Again", <<"send", "recv">>, TRUE)
  ELSE IF resp.kind = "no_debug"
    \* response['debug']['bbox']
    THEN Failed(RequestData(hist, text), resp, fs, q, h,
                "KeyError", <<"send", "recv">>, FALSE)
  ELSE IF resp.kind = "no_result"
    \* response['result']
    THEN Failed(RequestData(hist, text), resp, fs, q, h,
                "KeyError", <<"send", "recv">>, FALSE)
  ELSE Decoded(DecodeChunk(DecodeStart(hist, fs, q, h), resp.result, resp.bbox),
               RequestData(hist, text), resp)

(***************************************************************************)
(* step                                                                    *)
(***************************************************************************)
NoArr == [t |-> <<0, 0, 0>>, r |-> <<0, 0, 0>>, g |-> 0]

NoRet == [kind |-> "none", exc |-> "", action |-> NoArr, bbox |-> NoBBox]

Raised(e) == [kind |-> "raise", exc |-> e, action |-> NoArr, bbox |-> NoBBox]

\* variant: deque.pop, from the right end
PopRight(q) == [item |-> q[Len(q)], rest |-> SubSeq(q, 1, Len(q) - 1)]

\* deque.popleft: the element removed and the rest
PopLeft(q) == [item |-> Head(q), rest |-> Tail(q)]

\* variant: the sign flip is missing
FlipGripperMissing(h, ref) == h

\* action[6] = -action[6], in place
FlipGripper(h, ref) == [h EXCEPT ![ref].g = -@]

Idle == [phase |-> "idle"]

\* line 117: len(self.pred_actions) == 0
NeedsRefill(q) == Len(q) = 0

\* the arrays still referenced; those of a consumed chunk are unreachable
LiveHeap(q, h) == IF Len(q) = 0 THEN << >> ELSE h

\* a step that skips _post_and_get calls nothing on the socket
Skipped ==
  [exc |-> "", awaiting |-> awaiting, q |-> pred_actions, heap |-> heap,
   fs |-> finger_state, calls |-> << >>, request |-> NoRequest,
   response |-> NoResponse, log |-> << >>]

\* lines 119-125 on the queue and heap pg left
Emit(pg, p) ==
  /\ ret' = [kind |-> "ok", exc |-> "",
             action |-> FlipGripper(pg.heap, p.item.ref)[p.item.ref],
             bbox |-> p.item.bbox]
  /\ pred_actions' = p.rest
  /\ heap' = FlipGripper(pg.heap, p.item.ref)

StepWith(hist, pg) ==
  /\ proprio_history' = hist
  /\ instruction' = instruction
  /\ awaiting' = pg.awaiting
  /\ finger_state' = pg.fs
  /\ calls' = pg.calls
  /\ request' = pg.request
  /\ response' = pg.response
  /\ enqueued' = pg.log
  /\ IF pg.exc # ""
       THEN /\ ret' = Raised(pg.exc)
            /\ pred_actions' = pg.q
            /\ heap' = pg.heap
     ELSE IF Len(pg.q) = 0
       \* popleft on an empty deque
       THEN /\ ret' = Raised("IndexError")
            /\ pred_actions' = pg.q
            /\ heap' = pg.heap
     ELSE Emit(pg, PopLeft(pg.q))

\* step on the agent's own state
AgentStep(obs, resp) ==
  \E hist \in {ProcessProprio(proprio_history, GetCurrentProprio(obs, finger_state))} :
    \E pg \in {IF NeedsRefill(pred_actions)
                 THEN PostAndGet(hist, instruction, finger_state, pred_actions,
                                 LiveHeap(pred_actions, heap), awaiting, resp)
                 ELSE Skipped} :
      StepWith(hist, pg)

Step(obs, resp) ==
  /\ AgentStep(obs, resp)
  /\ UNCHANGED <<dec, fed, ctor, pose, episode, video, seeds>>

\* __init__ returned: the context and the socket are open
Constructed(text) ==
  [phase |-> "ready", instruction |-> text, port |-> 5555, exc |-> "",
   msg |-> "", opened |-> <<"context", "socket">>]

\* _initialize_state, after _validate_inputs and _setup_zmq_connection
InitWith(text) ==
  /\ proprio_history = << >>
  /\ instruction = text
  /\ pred_actions = << >>
  /\ heap = << >>
  /\ finger_state = GRIPPER_OPEN
  /\ awaiting = FALSE
  /\ ret = NoRet
  /\ calls = << >>
  /\ request = NoRequest
  /\ response = NoResponse
  /\ enqueued = << >>
  /\ dec = Idle
  /\ fed = << >>
  /\ ctor = Constructed(instruction)
  /\ pose = Idle
  /\ episode = Idle
  /\ video = Idle
  /\ seeds = Idle

\* the agent of the end-to-end scenario
Init == InitWith("pick up apple")

\* recv_pyobj is reached only by a step that refills on a socket ready to send;
\* any other step consumes no response
Receives == NeedsRefill(pred_actions) /\ ~awaiting

Next ==
  \/ \E obs \in FKPoses, resp \in Responses : Receives /\ Step(obs, resp)
  \/ \E obs \in FKPoses : ~Receives /\ Step(obs, NoResponse)

Spec == Init /\ [][Next]_vars

(***************************************************************************)
(* The agent under either instruction, with replies of at most one entry.  *)
(***************************************************************************)
InitText == \E text \in Instructions : InitWith(text)

ShortResponses == { r \in Responses : Len(r.result) <= 1 }

NextText ==
  \/ \E obs \in FKPoses, resp \in ShortResponses : Receives /\ Step(obs, resp)
  \/ \E obs \in FKPoses : ~Receives /\ Step(obs, NoResponse)

SpecText == InitText /\ [][NextText]_vars

(***************************************************************************)
(* The decoding loop on its own: a chunk, an initial finger_state and a    *)
(* newest frame are drawn, and each step runs one iteration of the loop    *)
(* of _post_and_get on an empty queue.                                     *)
(***************************************************************************)
PlanStart(chunk, fs0, obs) ==
  [phase |-> "decoding", chunk |-> chunk, fs0 |-> fs0, obs |-> obs, i |-> 0,
   d    |-> DecodeStart(ProcessProprio(<< >>, GetCurrentProprio(obs, fs0)),
                        fs0, << >>, << >>),
   prev |-> DecodeStart(ProcessProprio(<< >>, GetCurrentProprio(obs, fs0)),
                        fs0, << >>, << >>)]

InitPlan ==
  /\ proprio_history = << >>
  /\ instruction \in Instructions
  /\ pred_actions = << >>
  /\ heap = << >>
  /\ finger_state = GRIPPER_OPEN
  /\ awaiting = FALSE
  /\ ret = NoRet
  /\ calls = << >>
  /\ request = NoRequest
  /\ response = NoResponse
  /\ enqueued = << >>
  /\ fed = << >>
  /\ ctor = Constructed(instruction)
  /\ pose = Idle
  /\ episode = Idle
  /\ video = Idle
  /\ seeds = Idle
  /\ dec \in { PlanStart(c, f, o) : c \in ChunksOf(Entries, PlanMaxChunk),
                                    f \in Grips \ {0}, o \in FKPoses }

PlanStep ==
  /\ dec.i < Len(dec.chunk)
  /\ ~dec.d.exc
  /\ dec' = [dec EXCEPT !.i = @ + 1, !.prev = dec.d,
                        !.d = DecodeEntry(dec.d, dec.chunk[dec.i + 1], "bboxA")]
  /\ UNCHANGED <<proprio_history, instruction, pred_actions, heap, finger_state,
                 awaiting, ret, calls, request, response, enqueued, fed, ctor,
                 pose, episode, video, seeds>>

NextPlan == PlanStep

SpecPlan == InitPlan /\ [][NextPlan]_vars

(***************************************************************************)
(* The proprioception buffer on its own: _process_proprio on a sequence of *)
(* observations, with the frames it was given recorded in fed.             *)
(***************************************************************************)
ProprioPoses == FKPoses \cup { [t |-> <<0, 1, 0>>, R |-> Euler2Mat(<<0, 0, 0>>)] }

FeedProprio(obs) ==
  /\ Len(fed) < MaxFed
  /\ proprio_history' =
       ProcessProprio(proprio_history, GetCurrentProprio(obs, finger_state))
  /\ fed' = Append(fed, GetCurrentProprio(obs, finger_state))
  /\ UNCHANGED <<instruction, pred_actions, heap, finger_state, awaiting, ret,
                 calls, request, response, enqueued, dec, ctor,
                 pose, episode, video, seeds>>

NextProprio == \E obs \in ProprioPoses : FeedProprio(obs)

SpecProprio == Init /\ [][NextProprio]_vars

(***************************************************************************)
(* __init__ on its own: the arguments are drawn, and each step runs one of *)
(* the four calls of __init__.  An instruction is a sequence of characters *)
(* here, so that str.strip can be computed.                                *)
(***************************************************************************)
MaxInstrLen == 3

\* characters str.strip removes
Whitespace == {" ", "\t"}

Chars == Whitespace \cup {"a"}

CtorInstructions == UNION { [1..n -> Chars] : n \in 0..MaxInstrLen }

CtorPorts == {-1, 0, 1, 2, 5555, 65534, 65535, 65536, 70000}

RECURSIVE LStrip(_)
LStrip(s) == IF s # << >> /\ Head(s) \in Whitespace THEN LStrip(Tail(s)) ELSE s

RECURSIVE RStrip(_)
RStrip(s) ==
  IF s # << >> /\ s[Len(s)] \in Whitespace
    THEN RStrip(SubSeq(s, 1, Len(s) - 1))
    ELSE s

\* str.strip()
Strip(s) == RStrip(LStrip(s))

\* variant: the upper end of the range is excluded
PortInRangeExclusive(port) == 1 <= port /\ port < 65535

\* 1 <= port <= 65535
PortInRange(port) == 1 <= port /\ port <= 65535

\* _validate_inputs: the message of the ValueError raised, "" when it returns
ValidateInputs(text, port) ==
  IF Strip(text) = << >> THEN "Instruction cannot be empty"
  ELSE IF ~PortInRange(port) THEN "Port must be between 1-65535"
  ELSE ""

Unset == "unset"

CtorFailed(c, e, m) == [c EXCEPT !.phase = "failed", !.exc = e, !.msg = m]

CtorStart(text, port) ==
  [phase |-> "validate", instruction |-> text, port |-> port, exc |-> "",
   msg |-> "", opened |-> << >>]

InitCtor ==
  /\ ctor \in { CtorStart(s, p) : s \in CtorInstructions, p \in CtorPorts }
  /\ proprio_history = Unset
  /\ instruction = Unset
  /\ pred_actions = Unset
  /\ finger_state = Unset
  /\ heap = << >>
  /\ awaiting = FALSE
  /\ ret = NoRet
  /\ calls = << >>
  /\ request = NoRequest
  /\ response = NoResponse
  /\ enqueued = << >>
  /\ dec = Idle
  /\ fed = << >>
  /\ pose = Idle
  /\ episode = Idle
  /\ video = Idle
  /\ seeds = Idle

CtorOnly ==
  UNCHANGED <<proprio_history, instruction, pred_actions, heap, finger_state,
              awaiting, ret, calls, request, response, enqueued, dec, fed,
              pose, episode, video, seeds>>

\* line 36
CtorValidate ==
  /\ ctor.phase = "validate"
  /\ ctor' = IF ValidateInputs(ctor.instruction, ctor.port) # ""
               THEN CtorFailed(ctor, "ValueError",
                               ValidateInputs(ctor.instruction, ctor.port))
               ELSE [ctor EXCEPT !.phase = "zmq"]
  /\ CtorOnly

\* line 37, _setup_zmq_connection: the context, then the socket; an exception
\* of any of the four calls is re-raised as ConnectionError, and what was
\* opened before it stays open
CtorSetupZmq ==
  /\ ctor.phase = "zmq"
  /\ \/ ctor' = [ctor EXCEPT !.phase = "robot", !.opened = <<"context", "socket">>]
     \/ \E got \in { << >>, <<"context">>, <<"context", "socket">> } :
          ctor' = [CtorFailed(ctor, "ConnectionError",
                              "Failed to establish ZMQ connection")
                     EXCEPT !.opened = got]
  /\ CtorOnly

\* line 38, _setup_robot_config: load_yaml and the IKSolver may raise
CtorSetupRobotConfig ==
  /\ ctor.phase = "robot"
  /\ \/ ctor' = [ctor EXCEPT !.phase = "state"]
     \/ ctor' = CtorFailed(ctor, "Exception", "")
  /\ CtorOnly

\* line 39, _initialize_state
CtorInitializeState ==
  /\ ctor.phase = "state"
  /\ ctor' = [ctor EXCEPT !.phase = "ready"]
  /\ proprio_history' = << >>
  /\ instruction' = ctor.instruction
  /\ pred_actions' = << >>
  /\ finger_state' = GRIPPER_OPEN
  /\ UNCHANGED <<heap, awaiting, ret, calls, request, response, enqueued, dec, fed,
                 pose, episode, video, seeds>>

NextCtor ==
  \/ CtorValidate
  \/ CtorSetupZmq
  \/ CtorSetupRobotConfig
  \/ CtorInitializeState

SpecCtor == InitCtor /\ [][NextCtor]_vars

(***************************************************************************)
(* _delta_to_abs on its own: a current pose of any six scalars is drawn,   *)
(* and each step composes one more delta onto the pose the previous call   *)
(* returned (current_pose = abs_action[:6], line 160).                     *)
(***************************************************************************)
MaxDeltas == 2

\* any three Euler angles
EulerTriples == { <<a, b, c>> : a \in Angles, b \in Angles, c \in Angles }

PoseInputs ==
  { [t |-> t, r |-> r] : t \in { <<0, 0, 0>>, <<1, -1, 2>> }, r \in EulerTriples }

\* deltas whose six pose scalars are zero, with and without a gripper target
ZeroDeltas ==
  { [ok |-> TRUE, t |-> <<0, 0, 0>>, r |-> <<0, 0, 0>>, g |-> g] : g \in {0, -1} }

\* one rotation delta about each axis
RotDeltas ==
  { [ok |-> TRUE, t |-> <<1, 0, 0>>, r |-> <<1, 0, 0>>, g |-> 0],
    [ok |-> TRUE, t |-> <<0, 0, -1>>, r |-> <<0, 1, 0>>, g |-> 1],
    [ok |-> TRUE, t |-> <<0, 0, 0>>, r |-> <<0, 0, 1>>, g |-> 0] }

PoseDeltas == ZeroDeltas \cup RotDeltas

PoseStart(p) == [phase |-> "composing", start |-> p, deltas |-> << >>, out |-> << >>]

\* the current_pose of the next call: the start pose, then abs_action[:6]
CurrentPose(c) == IF c.out = << >> THEN c.start ELSE Pose6(c.out[Len(c.out)])

InitPose ==
  /\ pose \in { PoseStart(p) : p \in PoseInputs }
  /\ proprio_history = << >>
  /\ instruction = "pick up apple"
  /\ pred_actions = << >>
  /\ heap = << >>
  /\ finger_state = GRIPPER_OPEN
  /\ awaiting = FALSE
  /\ ret = NoRet
  /\ calls = << >>
  /\ request = NoRequest
  /\ response = NoResponse
  /\ enqueued = << >>
  /\ dec = Idle
  /\ fed = << >>
  /\ ctor = Constructed(instruction)
  /\ episode = Idle
  /\ video = Idle
  /\ seeds = Idle

\* abs_action = self._delta_to_abs(delta_action, current_pose)
ComposeDelta(delta_action) ==
  /\ Len(pose.deltas) < MaxDeltas
  /\ pose' = [pose EXCEPT !.deltas = Append(@, delta_action),
                          !.out = Append(@, DeltaToAbs(delta_action, CurrentPose(pose)))]
  /\ UNCHANGED <<proprio_history, instruction, pred_actions, heap, finger_state,
                 awaiting, ret, calls, request, response, enqueued, dec, fed, ctor,
                 episode, video, seeds>>

NextPose == \E delta_action \in PoseDeltas : ComposeDelta(delta_action)

SpecPose == InitPose /\ [][NextPose]_vars

(***************************************************************************)
(* VideoLogger (src/misc/logger.py).  A file name is a record: the seed of *)
(* the episode, whether it carries the _x264 mark, and the suffix          *)
(* stop_recording adds.  files is the set of names that exist in save_dir, *)
(* converted the ffmpeg runs so far, exc the exception of the last call    *)
(* ("" when it returned), last the name of that call and before the name   *)
(* of the call before it.                                                  *)
(***************************************************************************)
MaxRecordings == 2

MaxFrames == 2

VideoSeeds == {0, 1}

\* None, for a file name
NoName == [seed |-> -1, x264 |-> FALSE, suffix |-> ""]

\* None, for self.video_writer
NoWriter == [open |-> FALSE, name |-> NoName, frames |-> 0]

\* f'{save_dir}/{test_set}_{task_id}_pick_up_{object}_{seed}.mp4'
VideoName(seed) == [seed |-> seed, x264 |-> FALSE, suffix |-> ""]

\* video_name.replace('.mp4', '_x264.mp4')
X264Name(name) == [name EXCEPT !.x264 = TRUE]

\* new_video_name.replace('.mp4', '_success.mp4') or '_fail.mp4'
Suffixed(name, success) ==
  [name EXCEPT !.suffix = @ \o (IF success THEN "_success" ELSE "_fail")]

\* __init__
VideoLoggerNew ==
  [video_writer |-> NoWriter, video_name |-> NoName, new_video_name |-> NoName,
   files |-> {}, converted |-> << >>, started |-> 0, exc |-> "",
   before |-> "", last |-> "__init__"]

\* start_recording: the names, then a writer that creates the file
StartRecordingOf(v, seed) ==
  [v EXCEPT !.video_name = VideoName(seed),
            !.new_video_name = X264Name(VideoName(seed)),
            !.video_writer = [open |-> TRUE, name |-> VideoName(seed), frames |-> 0],
            !.files = @ \cup {VideoName(seed)},
            !.started = @ + 1,
            !.exc = "", !.before = v.last, !.last = "start_recording"]

\* log_frame
LogFrameOf(v) ==
  IF ~v.video_writer.open
    THEN [v EXCEPT !.exc = "RuntimeError", !.before = v.last, !.last = "log_frame"]
    ELSE [v EXCEPT !.video_writer.frames = @ + 1,
                   !.exc = "", !.before = v.last, !.last = "log_frame"]

\* _convert_video: ffmpeg -i video_name new_video_name -y
ConvertVideo(v) ==
  IF v.video_name = NoName \/ v.new_video_name = NoName THEN v
  ELSE [v EXCEPT !.converted = Append(@, [from |-> v.video_name,
                                          to |-> v.new_video_name]),
                 !.files = IF v.video_name \in v.files
                             THEN @ \cup {v.new_video_name} ELSE @]

\* lines 124-125: os.remove(self.video_name) when it exists
RemoveOriginal(v) == [v EXCEPT !.files = @ \ {v.video_name}]

\* variant: self.video_writer is not reset after release
StopRecordingKeepsWriterOf(v, success) ==
  IF ~v.video_writer.open \/ v.new_video_name = NoName \/ v.video_name = NoName
    THEN [v EXCEPT !.exc = "", !.before = v.last, !.last = "stop_recording"]
    ELSE RemoveOriginal(ConvertVideo(
           [v EXCEPT !.new_video_name = Suffixed(@, success),
                     !.exc = "", !.before = v.last, !.last = "stop_recording"]))

\* stop_recording
StopRecordingOf(v, success) ==
  IF ~v.video_writer.open \/ v.new_video_name = NoName \/ v.video_name = NoName
    THEN [v EXCEPT !.exc = "", !.before = v.last, !.last = "stop_recording"]
    ELSE RemoveOriginal(ConvertVideo(
           [v EXCEPT !.video_writer = NoWriter,
                     !.new_video_name = Suffixed(@, success),
                     !.exc = "", !.before = v.last, !.last = "stop_recording"]))

\* cleanup
CleanupOf(v) ==
  [v EXCEPT !.video_writer = NoWriter,
            !.exc = "", !.before = v.last, !.last = "cleanup"]

InitVideo ==
  /\ video = VideoLoggerNew
  /\ proprio_history = << >>
  /\ instruction = "pick up apple"
  /\ pred_actions = << >>
  /\ heap = << >>
  /\ finger_state = GRIPPER_OPEN
  /\ awaiting = FALSE
  /\ ret = NoRet
  /\ calls = << >>
  /\ request = NoRequest
  /\ response = NoResponse
  /\ enqueued = << >>
  /\ dec = Idle
  /\ fed = << >>
  /\ ctor = Constructed(instruction)
  /\ pose = Idle
  /\ episode = Idle
  /\ seeds = Idle

VideoOnly ==
  UNCHANGED <<proprio_history, instruction, pred_actions, heap, finger_state,
              awaiting, ret, calls, request, response, enqueued, dec, fed, ctor,
              pose, episode, seeds>>

StartRecording(seed) ==
  /\ video.started < MaxRecordings
  /\ video' = StartRecordingOf(video, seed)
  /\ VideoOnly

LogFrame ==
  /\ video.video_writer.frames < MaxFrames
  /\ video' = LogFrameOf(video)
  /\ VideoOnly

StopRecording(success) ==
  /\ video' = StopRecordingOf(video, success)
  /\ VideoOnly

Cleanup ==
  /\ video' = CleanupOf(video)
  /\ VideoOnly

NextVideo ==
  \/ \E seed \in VideoSeeds : StartRecording(seed)
  \/ LogFrame
  \/ \E success \in BOOLEAN : StopRecording(success)
  \/ Cleanup

SpecVideo == InitVideo /\ [][NextVideo]_vars

(***************************************************************************)
(* run_episode (src/benchmark_runner.py) on a fresh agent and a logger     *)
(* whose recording test() has started.  episode holds the arguments, the   *)
(* position (stabilize, loop, returned, raised), the observation env.step  *)
(* returned last, the iterations done, the calls of the last iteration in  *)
(* order, the action env.step was given last and the success flags         *)
(* stop_recording was called with.                                         *)
(***************************************************************************)
MaxSteps == 3

MaxStabilize == 2

\* action[-1] = -1  # Keep gripper opened
KeepGripperOpened(action) == [action EXCEPT !.g = -1]

\* the agent's attributes a stabilization iteration could touch
AgentFields == [proprio_history |-> proprio_history, pred_actions |-> pred_actions,
                finger_state |-> finger_state]

\* variant: the frame is appended to the buffer, as _process_proprio does
AfterProcessProprio(a, frame) ==
  [a EXCEPT !.proprio_history = ProcessProprio(@, frame)]

\* get_current_proprio assigns no attribute of the agent
AfterGetCurrentProprio(a, frame) == a

\* for _ in range(steps): the loop of stabilize_scene has iterations left
PcAfterStabilize(k, steps) == IF k < steps THEN "stabilize" ELSE "loop"

\* variant: one iteration more than max_steps
MoreIterationsInclusive(step, max_steps) == step <= max_steps

\* for step in range(max_steps): the loop has iterations left
MoreIterations(step, max_steps) == step < max_steps

EpisodeStart(initial_obs, max_steps, stabilize_steps) ==
  [pc |-> PcAfterStabilize(0, stabilize_steps), max_steps |-> max_steps,
   stabilize_steps |-> stabilize_steps, obs |-> initial_obs, stabilized |-> 0,
   step |-> 0, done |-> FALSE, trace |-> << >>, env_action |-> NoArr,
   stops |-> << >>]

\* test(), lines 57-59: start_recording, RemoteAgent(...), run_episode(...)
InitEpisode ==
  /\ episode \in { EpisodeStart(o, m, n) : o \in FKPoses, m \in 0..MaxSteps,
                                            n \in 0..MaxStabilize }
  /\ video = StartRecordingOf(VideoLoggerNew, 0)
  /\ proprio_history = << >>
  /\ instruction = "pick up apple"
  /\ pred_actions = << >>
  /\ heap = << >>
  /\ finger_state = GRIPPER_OPEN
  /\ awaiting = FALSE
  /\ ret = NoRet
  /\ calls = << >>
  /\ request = NoRequest
  /\ response = NoResponse
  /\ enqueued = << >>
  /\ dec = Idle
  /\ fed = << >>
  /\ ctor = Constructed(instruction)
  /\ pose = Idle
  /\ seeds = Idle

\* one iteration of stabilize_scene; env.step returns the observation obs
StabilizeScene(obs) ==
  /\ episode.pc = "stabilize"
  /\ \E frame \in {GetCurrentProprio(episode.obs, finger_state)} :
       /\ \E a \in {AfterGetCurrentProprio(AgentFields, frame)} :
            /\ proprio_history' = a.proprio_history
            /\ pred_actions' = a.pred_actions
            /\ finger_state' = a.finger_state
       /\ episode' = [episode EXCEPT
            !.stabilized = @ + 1,
            !.pc = PcAfterStabilize(episode.stabilized + 1, episode.stabilize_steps),
            !.obs = obs,
            !.env_action = KeepGripperOpened(frame),
            !.trace = <<"get_current_proprio", "env.step">>]
  /\ UNCHANGED <<instruction, heap, awaiting, ret, calls, request, response,
                 enqueued, dec, fed, ctor, pose, video, seeds>>

\* lines 97-102 after agent.step returned: env.step, log_frame, and
\* stop_recording(success=True) when the environment reports done
AfterAgentStep(obs, done) ==
  \E logged \in {LogFrameOf(video)} :
    IF logged.exc # ""
      THEN /\ video' = logged
           /\ episode' = [episode EXCEPT !.pc = "raised", !.step = @ + 1, !.obs = obs,
                                         !.done = done, !.env_action = ret'.action,
                                         !.trace = <<"agent.step", "env.step", "log_frame">>]
    ELSE IF done
      THEN /\ video' = StopRecordingOf(logged, TRUE)
           /\ episode' = [episode EXCEPT !.pc = "returned", !.step = @ + 1, !.obs = obs,
                                         !.done = done, !.env_action = ret'.action,
                                         !.trace = <<"agent.step", "env.step", "log_frame",
                                                     "stop_recording">>,
                                         !.stops = Append(@, TRUE)]
    ELSE /\ video' = logged
         /\ episode' = [episode EXCEPT !.step = @ + 1, !.obs = obs,
                                       !.done = done, !.env_action = ret'.action,
                                       !.trace = <<"agent.step", "env.step", "log_frame">>]

\* agent.step raised: the exception leaves run_episode
AgentStepRaised ==
  /\ video' = video
  /\ episode' = [episode EXCEPT !.pc = "raised", !.step = @ + 1,
                                !.trace = <<"agent.step">>]

\* one iteration of the main loop, lines 95-102
EpisodeStep(resp, obs, done) ==
  /\ episode.pc = "loop"
  /\ MoreIterations(episode.step, episode.max_steps)
  /\ AgentStep(episode.obs, resp)
  /\ IF ret'.kind = "raise" THEN AgentStepRaised ELSE AfterAgentStep(obs, done)
  /\ UNCHANGED <<dec, fed, ctor, pose, seeds>>

\* lines 104-105: the loop ran out of iterations
EpisodeExhausted ==
  /\ episode.pc = "loop"
  /\ ~MoreIterations(episode.step, episode.max_steps)
  /\ video' = StopRecordingOf(video, FALSE)
  /\ episode' = [episode EXCEPT !.pc = "returned", !.trace = <<"stop_recording">>,
                                !.stops = Append(@, FALSE)]
  /\ UNCHANGED <<proprio_history, instruction, pred_actions, heap, finger_state,
                 awaiting, ret, calls, request, response, enqueued, dec, fed, ctor,
                 pose, seeds>>

NextEpisode ==
  \/ \E obs \in FKPoses : StabilizeScene(obs)
  \/ \E resp \in ShortResponses, obs \in FKPoses, done \in BOOLEAN :
       Receives /\ EpisodeStep(resp, obs, done)
  \/ \E obs \in FKPoses, done \in BOOLEAN :
       ~Receives /\ EpisodeStep(NoResponse, obs, done)
  \/ EpisodeExhausted

SpecEpisode == InitEpisode /\ [][NextEpisode]_vars

(***************************************************************************)
(* The seed split of parallel_eval (src/parallel_eval.py) and its reading  *)
(* by get_seed_list (src/evaluate_libero_tasks.py).  seeds holds           *)
(* trial_num, parallel_env_num, the loop index i, the text of the seed     *)
(* files written so far (seeds_0.json first) and the seed list each        *)
(* started process loaded.                                                 *)
(***************************************************************************)
MaxTrials == 6

MaxEnvs == 4

RECURSIVE Slice(_, _, _)
\* range(stop)[start::step], for start >= 0 and step >= 1
Slice(start, stop, step) ==
  IF start >= stop THEN << >> ELSE <<start>> \o Slice(start + step, stop, step)

\* variant: range(trial_num)[i:parallel_env_num]
SeedListUpTo(trial_num, i, parallel_env_num) ==
  Slice(i, IF parallel_env_num < trial_num THEN parallel_env_num ELSE trial_num, 1)

\* list(range(cfg.trial_num)[i::cfg.parallel_env_num])
SeedList(trial_num, i, parallel_env_num) == Slice(i, trial_num, parallel_env_num)

RECURSIVE JsonItems(_)
JsonItems(list) ==
  IF list = << >> THEN << >>
  ELSE IF Len(list) = 1 THEN <<ToString(Head(list))>>
  ELSE <<ToString(Head(list)), ", ">> \o JsonItems(Tail(list))

\* json.dump(seed_list, f): the tokens of the text
JsonDump(list) == <<"[">> \o JsonItems(list) \o <<"]">>

\* json.load(f) of such a text: the numbers at the even positions
JsonLoad(text) ==
  [k \in 1..((Len(text) - 1) \div 2) |->
     CHOOSE n \in 0..MaxTrials : ToString(n) = text[2 * k]]

SeedsStart(trial_num, parallel_env_num) ==
  [trial_num |-> trial_num, parallel_env_num |-> parallel_env_num, i |-> 0,
   files |-> << >>, loaded |-> {}]

InitSeeds ==
  /\ seeds \in { SeedsStart(t, n) : t \in 0..MaxTrials, n \in 1..MaxEnvs }
  /\ proprio_history = << >>
  /\ instruction = "pick up apple"
  /\ pred_actions = << >>
  /\ heap = << >>
  /\ finger_state = GRIPPER_OPEN
  /\ awaiting = FALSE
  /\ ret = NoRet
  /\ calls = << >>
  /\ request = NoRequest
  /\ response = NoResponse
  /\ enqueued = << >>
  /\ dec = Idle
  /\ fed = << >>
  /\ ctor = Constructed(instruction)
  /\ pose = Idle
  /\ episode = Idle
  /\ video = Idle

SeedsOnly ==
  UNCHANGED <<proprio_history, instruction, pred_actions, heap, finger_state,
              awaiting, ret, calls, request, response, enqueued, dec, fed, ctor,
              pose, episode, video>>

\* one iteration of the loop of main, lines 38-44
WriteSeedFile ==
  /\ seeds.i < seeds.parallel_env_num
  /\ seeds' = [seeds EXCEPT
       !.i = @ + 1,
       !.files = Append(@, JsonDump(SeedList(seeds.trial_num, seeds.i,
                                             seeds.parallel_env_num)))]
  /\ SeedsOnly

\* process proc, started by commands.sh after the loop, reads its seed file
GetSeedList(proc) ==
  /\ seeds.i = seeds.parallel_env_num
  /\ proc \in 0..(seeds.parallel_env_num - 1)
  /\ proc \notin { l.proc : l \in seeds.loaded }
  /\ seeds' = [seeds EXCEPT
       !.loaded = @ \cup {[proc |-> proc, seed_list |-> JsonLoad(seeds.files[proc + 1])]}]
  /\ SeedsOnly

NextSeeds ==
  \/ WriteSeedFile
  \/ \E proc \in 0..(MaxEnvs - 1) : GetSeedList(proc)

SpecSeeds == InitSeeds /\ [][NextSeeds]_vars

(***************************************************************************)
(* Properties                                                              *)
(***************************************************************************)
Sends(cs) == { i \in DOMAIN cs : cs[i] = "send" }

\* C1: over any sequence of step calls, timeouts included, the agent issues no
\* send while a sent request is unanswered, and the socket calls of a step are
\* a send followed by a receive (or none), so that sends and receives alternate.
C1_SendsAlternateWithReceives ==
  [][ /\ (awaiting => Sends(calls') = {})
      /\ calls' \in { << >>, <<"send", "recv">> } ]_vars

\* the iteration of the decoding loop that ran last, in SpecPlan
PlanDecoded == dec.i >= 1 /\ ~dec.d.exc

PlanEntry == dec.chunk[dec.i]

\* the items that iteration appended to the queue
PlanNew == SubSeq(dec.d.q, Len(dec.prev.q) + 1, Len(dec.d.q))

PlanVal(item) == dec.d.heap[item.ref]

\* the entry's absolute pose
PlanAbs == DeltaToAbs(PlanEntry, dec.prev.cur)

\* the iteration left the items queued before it, and their arrays, alone
PlanKeepsEarlier ==
  /\ SubSeq(dec.d.q, 1, Len(dec.prev.q)) = dec.prev.q
  /\ \A k \in DOMAIN dec.prev.q :
       dec.d.heap[dec.prev.q[k].ref] = dec.prev.heap[dec.prev.q[k].ref]

\* C2: an entry whose gripper field is nonzero and differs from
\* last_finger_state is enqueued as five actions: the absolute pose with gripper
\* 0, then four times the absolute pose with the target gripper value; and
\* finger_state becomes the target.
C2_TransitionEnqueuesFive ==
  (PlanDecoded /\ PlanEntry.g # 0 /\ PlanEntry.g # dec.prev.lfs) =>
    /\ Len(PlanNew) = 5
    /\ PlanVal(PlanNew[1]) = [t |-> PlanAbs.t, r |-> PlanAbs.r, g |-> 0]
    /\ \A k \in 2..5 :
         PlanVal(PlanNew[k]) = [t |-> PlanAbs.t, r |-> PlanAbs.r, g |-> PlanEntry.g]
    /\ \A k \in 1..5 : PlanNew[k].bbox = "bboxA"
    /\ PlanKeepsEarlier
    /\ dec.d.fs = PlanEntry.g

C2_Witness ==
  /\ PlanDecoded /\ dec.i = 2
  /\ PlanEntry.g = 1 /\ dec.prev.lfs = -1 /\ dec.prev.fs = -1
  /\ Len(PlanNew) = 5 /\ PlanVal(PlanNew[1]).g = 0 /\ PlanVal(PlanNew[5]).g = 1
  /\ dec.d.fs = 1

\* C3: an entry whose gripper field is 0 or equals last_finger_state is
\* enqueued as one action with the absolute pose and the gripper field as
\* received, and finger_state is not changed.
C3_NoTransitionEnqueuesOne ==
  (PlanDecoded /\ (PlanEntry.g = 0 \/ PlanEntry.g = dec.prev.lfs)) =>
    /\ Len(PlanNew) = 1
    /\ PlanVal(PlanNew[1]) = [t |-> PlanAbs.t, r |-> PlanAbs.r, g |-> PlanEntry.g]
    /\ PlanNew[1].bbox = "bboxA"
    /\ PlanKeepsEarlier
    /\ dec.d.fs = dec.prev.fs

C3_Witness ==
  /\ PlanDecoded /\ dec.i = 2
  /\ PlanEntry.g = 0 /\ dec.prev.lfs = -1 /\ dec.fs0 = 1
  /\ Len(PlanNew) = 1 /\ PlanVal(PlanNew[1]).g = 0
  /\ dec.d.fs = -1

\* the whole chunk was decoded
PlanDone == dec.i = Len(dec.chunk) /\ ~dec.d.exc

PlanGrips == [k \in DOMAIN dec.chunk |-> dec.chunk[k].g]

\* the most recent nonzero gripper field before entry k, or the initial state
PlanReference(k) ==
  LET nz == { j \in 1..(k - 1) : dec.chunk[j].g # 0 }
  IN IF nz = {} THEN dec.fs0
     ELSE dec.chunk[CHOOSE j \in nz : \A i \in nz : i <= j].g

PlanTransitions ==
  Cardinality({ k \in DOMAIN dec.chunk :
                  dec.chunk[k].g # 0 /\ dec.chunk[k].g # PlanReference(k) })

\* C4: decoding a chunk of n entries enqueues n + 4*T actions, T the number of
\* entries whose gripper field is nonzero and differs from the most recent
\* nonzero field of an earlier entry (or the initial finger_state);
\* [0, +1] from -1 gives 6 and [+1] from +1 gives 1.
C4_RefillEnqueuesNPlusFourT ==
  PlanDone =>
    /\ Len(dec.d.q) = Len(dec.chunk) + 4 * PlanTransitions
    /\ (PlanGrips = <<0, 1>> /\ dec.fs0 = -1 => Len(dec.d.q) = 6)
    /\ (PlanGrips = <<1>> /\ dec.fs0 = 1 => Len(dec.d.q) = 1)

C4_Witness ==
  /\ PlanDone
  /\ PlanGrips = <<-1, 0, -1>> /\ dec.fs0 = 1
  /\ Len(dec.d.q) = 7

\* C5: after the first update and after every later one the buffer holds
\* exactly 4 frames, and every request carries a proprio_array of 4 frames.
C5_BufferHoldsFourFrames ==
  /\ ret.kind # "none" => Len(proprio_history) = 4
  /\ request # NoRequest => Len(request.proprio_array) = 4

C5_Witness ==
  /\ ret.kind = "ok"
  /\ calls = <<"send", "recv">>
  /\ Len(request.proprio_array) = 4
  /\ request.proprio_array[1] # request.proprio_array[4]

LastFour(q) == SubSeq(q, Len(q) - 3, Len(q))

\* C6: after updates with frames f1..fk the buffer, oldest first, is the last
\* four elements of (f1, f1, f1, f1, f2, ..., fk).
C6_SnapshotIsLastFourOfPadded ==
  fed # << >> =>
    /\ proprio_history = LastFour(<<fed[1], fed[1], fed[1]>> \o fed)
    /\ (Len(fed) = 1 => \A k \in 1..4 : proprio_history[k] = fed[1])
    /\ (Len(fed) >= 4 => proprio_history = LastFour(fed))

C6_Witness ==
  /\ Len(fed) = 6
  /\ proprio_history = SubSeq(fed, 3, 6)
  /\ fed[1] # fed[3] /\ fed[3] # fed[4] /\ fed[4] # fed[6] /\ fed[3] # fed[6]

\* C7: a step sends a request to the service if and only if the queue is empty
\* when the step is entered, and at most one; the first step after construction
\* sends one.
C7_RequestIffQueueEmpty ==
  [][ /\ (request' # NoRequest) <=> (Len(pred_actions) = 0)
      /\ Cardinality(Sends(calls')) <= 1
      /\ (ret.kind = "none" => request' # NoRequest) ]_vars

\* a complete reply whose entries are all seven-scalar delta actions
WellFormed(resp) ==
  resp.kind = "ok" /\ \A k \in DOMAIN resp.result : resp.result[k].ok

\* C8 as stated: for every well-formed response, a chunk of any length, the
\* queue is non-empty when the refill returns, so the pop in the same step
\* yields an action.
C8_AnyChunkYieldsAnAction ==
  WellFormed(response) => ret.kind = "ok"

\* C8: for every well-formed response whose chunk has at least one entry the
\* queue is non-empty when the refill returns and the pop in the same step
\* yields an action, leaving the queue empty exactly when one action was
\* enqueued; for an empty chunk the refill enqueues nothing and the pop raises
\* IndexError.  A step that raised leaves the queue empty only if its refill
\* enqueued nothing.
C8_NonEmptyChunkYieldsAnAction ==
  /\ (WellFormed(response) /\ Len(response.result) >= 1) =>
       /\ ret.kind = "ok"
       /\ Len(enqueued) >= Len(response.result)
       /\ Len(pred_actions) = Len(enqueued) - 1
  /\ (WellFormed(response) /\ Len(response.result) = 0) =>
       /\ ret = Raised("IndexError")
       /\ Len(pred_actions) = 0
  /\ (ret.kind = "raise" /\ Len(pred_actions) = 0) => enqueued = << >>

C8_Witness ==
  /\ WellFormed(response) /\ Len(response.result) = 2
  /\ response.result[1].g = 0
  /\ ret.kind = "ok"
  /\ Len(pred_actions) = 5

RECURSIVE ExpectedLog(_, _, _, _)
\* the actions a well-formed chunk stands for, in chunk order, the arm-only
\* action of a transition before its four gripper actions
ExpectedLog(chunk, cur, lfs, bbox) ==
  IF chunk = << >> THEN << >>
  ELSE LET a == DeltaToAbs(Head(chunk), cur)
       IN (IF a.g = 0 \/ a.g = lfs
             THEN << [act |-> a, bbox |-> bbox] >>
             ELSE << [act |-> [a EXCEPT !.g = 0], bbox |-> bbox] >>
                    \o [k \in 1..4 |-> [act |-> a, bbox |-> bbox]])
          \o ExpectedLog(Tail(chunk), Pose6(a), IF a.g # 0 THEN a.g ELSE lfs, bbox)

\* the queue's items with the arrays they reference
Stored(q, h) == [k \in DOMAIN q |-> [act |-> h[q[k].ref], bbox |-> q[k].bbox]]

SameButGripperSign(a, b) ==
  /\ Pose6(a.act) = Pose6(b.act)
  /\ a.bbox = b.bbox
  /\ a.act.g \in {b.act.g, -b.act.g}

Returned(r) == [act |-> r.action, bbox |-> r.bbox]

\* C9: step emits the actions in the order the refill enqueued them (chunk
\* order, arm-only action before the four gripper actions), one per step, and
\* all actions of a chunk before any of a later chunk.
C9_EmittedInEnqueueOrder ==
  [][ ret'.kind = "ok" =>
        IF Len(pred_actions) > 0
          THEN /\ SameButGripperSign(Returned(ret'), Stored(pred_actions, heap)[1])
               /\ pred_actions' = Tail(pred_actions)
               /\ enqueued' = << >>
          ELSE /\ enqueued' # << >>
               /\ SameButGripperSign(Returned(ret'), enqueued'[1])
               /\ Stored(pred_actions', heap') = Tail(enqueued')
               /\ WellFormed(response') =>
                    enqueued' = ExpectedLog(response'.result,
                                            Pose6(proprio_history'[4]),
                                            finger_state, response'.bbox) ]_vars

C9_Witness ==
  /\ ret.kind = "ok"
  /\ calls = << >>
  /\ ret.action.g = -1
  /\ Len(pred_actions) = 4
  /\ finger_state = 1

\* C10: the action a step returns has the negated gripper field of the action
\* stored at the head of the queue, and its pose and bounding box as stored.
C10_ReturnedGripperIsNegated ==
  [][ ret'.kind = "ok" =>
        \A stored \in { IF Len(pred_actions) > 0
                          THEN Stored(pred_actions, heap)[1]
                          ELSE enqueued'[1] } :
          /\ ret'.action.g = -stored.act.g
          /\ Pose6(ret'.action) = Pose6(stored.act)
          /\ ret'.bbox = stored.bbox ]_vars

C10_Witness ==
  /\ ret.kind = "ok"
  /\ ret.action.g = 1
  /\ ret.bbox = "bboxB"
  /\ finger_state = -1

\* the step raised inside _post_and_get: at the send, at the receive, at a
\* field of the response or while converting an entry
RefillFailed(r) == r.kind = "raise" /\ r.exc # "IndexError"

\* C11: a refill is all-or-nothing: whenever a step fails during its refill
\* (timeout, missing field, an entry that cannot be converted, the first or a
\* later one) the queue is empty when the step returns, and the next step sends
\* a new request.
C11_FailedRefillLeavesQueueEmpty ==
  [][ /\ RefillFailed(ret') => Len(pred_actions') = 0
      /\ RefillFailed(ret) => request' # NoRequest ]_vars

\* C12: when no response arrives within the receive timeout the step fails
\* with the timeout error of the socket (zmq.error.Again), having sent once and
\* not retried, with the queue still empty and finger_state unchanged; the
\* step after it sends a fresh request.
C12_TimeoutThenFreshRequest ==
  [][ /\ (~awaiting /\ awaiting') =>
           /\ ret' = Raised("Again")
           /\ calls' = <<"send", "recv">>
           /\ Len(pred_actions') = 0
           /\ finger_state' = finger_state
      /\ ret = Raised("Again") => request' # NoRequest ]_vars

\* a reply without ['debug']['bbox'] or without ['result']
MissingField(resp) == resp.kind \in {"no_debug", "no_result"}

NonEmptyTrimmed(text) == \E i \in DOMAIN text : text[i] \notin Whitespace

\* __init__ is past _validate_inputs
Validated == ctor.phase # "validate"

\* C14: construction with an instruction that is empty after trimming, or with
\* a port outside [1, 65535], fails with the validation error (ValueError)
\* before a context or socket is created; with an instruction that is non-empty
\* after trimming and a port in [1, 65535], 1 and 65535 included, validation
\* passes.
C14_ValidationBeforeResources ==
  Validated =>
    /\ (ctor.exc = "ValueError") <=>
         (~NonEmptyTrimmed(ctor.instruction) \/ ctor.port < 1 \/ ctor.port > 65535)
    /\ ctor.exc = "ValueError" => (ctor.phase = "failed" /\ ctor.opened = << >>)
    /\ ctor.opened # << >> =>
         (NonEmptyTrimmed(ctor.instruction) /\ ctor.port >= 1 /\ ctor.port <= 65535)
    /\ (NonEmptyTrimmed(ctor.instruction) /\ ctor.port \in {1, 65535}) =>
         ctor.exc # "ValueError"

C14_Witness ==
  /\ ctor.phase = "ready"
  /\ ctor.port = 65535
  /\ ctor.instruction = <<" ", "a", "\t">>
  /\ instruction = ctor.instruction
  /\ ctor.opened = <<"context", "socket">>

\* the entries of a chunk the loop gets through: those before the first one
\* that cannot be converted
Convertible(chunk) ==
  SubSeq(chunk, 1, Cardinality({ k \in DOMAIN chunk :
                                   \A j \in 1..k : chunk[j].ok }))

\* the most recent nonzero gripper field before entry k, or fs0
ReferenceAt(chunk, k, fs0) ==
  LET nz == { j \in 1..(k - 1) : chunk[j].g # 0 }
  IN IF nz = {} THEN fs0
     ELSE chunk[CHOOSE j \in nz : \A i \in nz : i <= j].g

\* the entries whose gripper field is nonzero and differs from last_finger_state
TransitionsOf(chunk, fs0) ==
  { k \in DOMAIN chunk : chunk[k].g # 0 /\ chunk[k].g # ReferenceAt(chunk, k, fs0) }

LastOf(S) == CHOOSE k \in S : \A i \in S : i <= k

\* the chunk a step decoded, as far as it got
StepChunk(resp) == IF resp.kind = "ok" THEN Convertible(resp.result) ELSE << >>

\* C15: finger_state is +1 after construction; a step changes it only inside a
\* refill, at an entry whose gripper field is nonzero and differs from
\* last_finger_state, to that field; a step that pops from a non-empty queue
\* (buffer update and sign flip included) never changes it.
C15_FingerStateChangesOnlyAtTransitions ==
  [][ /\ ret = NoRet => finger_state = 1
      /\ Len(pred_actions) > 0 => finger_state' = finger_state
      /\ \A T \in { TransitionsOf(StepChunk(response'), finger_state) } :
           /\ T = {} => finger_state' = finger_state
           /\ T # {} => /\ calls' = <<"send", "recv">>
                        /\ Len(pred_actions) = 0
                        /\ finger_state' = response'.result[LastOf(T)].g ]_vars

C15_Witness ==
  /\ ret.kind = "ok"
  /\ calls = <<"send", "recv">>
  /\ Len(response.result) = 2
  /\ response.result[1].g = 0
  /\ response.result[2].g = -1
  /\ proprio_history[4].g = 1
  /\ finger_state = -1

\* the queued actions whose gripper field is g
QueuedWithGripper(q, h, g) == { k \in DOMAIN q : h[q[k].ref].g = g }

\* C16: finger_state is committed at decode time: when a refill that contains
\* a transition returns, finger_state is the committed target while the four
\* actions commanding it are all still queued; and the frame every step appends
\* carries the finger_state the step was entered with, so the frame of the
\* very next step carries that target.
C16_CommittedAtDecodeTime ==
  [][ /\ proprio_history'[4].g = finger_state
      /\ \A T \in { TransitionsOf(StepChunk(response'), finger_state) } :
           T # {} =>
             /\ finger_state' = response'.result[LastOf(T)].g
             /\ Cardinality(QueuedWithGripper(pred_actions', heap', finger_state')) >= 4 ]_vars

C16_Witness ==
  /\ ret.kind = "ok"
  /\ calls = << >>
  /\ proprio_history[3].g = 1
  /\ proprio_history[4].g = -1
  /\ finger_state = -1
  /\ ret.action.g = 1
  /\ Len(pred_actions) = 3

\* the buffer b after one update of the buffer a with the frame f
UpdatedOnce(a, b, f) ==
  b = IF a = << >> THEN <<f, f, f, f>> ELSE Tail(a) \o <<f>>

\* C17: every step, whether it returns or raises, updates the buffer with the
\* frame of its observation exactly once, and a request carries the buffer as
\* updated: its newest frame is the frame of the observation of the step that
\* sent it.
C17_BufferUpdatedOnceBeforeRequest ==
  [][ \E obs \in FKPoses :
        /\ UpdatedOnce(proprio_history, proprio_history',
                       GetCurrentProprio(obs, finger_state))
        /\ request' # NoRequest =>
             /\ request'.proprio_array = proprio_history'
             /\ request'.proprio_array[4] = GetCurrentProprio(obs, finger_state) ]_vars

C17_Witness ==
  /\ request # NoRequest
  /\ ret.kind = "ok"
  /\ request.proprio_array[3] # request.proprio_array[4]
  /\ request.proprio_array[4].t = <<1, 0, 0>>
  /\ request.proprio_array[4].g = -1
  /\ proprio_history = request.proprio_array

\* C18: no step modifies the instruction bound at construction, and every
\* request carries exactly that string as its text.
C18_InstructionSentUnchanged ==
  [][ /\ instruction' = instruction
      /\ instruction' = ctor.instruction
      /\ request' # NoRequest => request'.text = ctor.instruction ]_vars

C18_Witness ==
  /\ ctor.instruction = "pick up bowl"
  /\ request # NoRequest
  /\ request.text = "pick up bowl"
  /\ request.proprio_array[1] # request.proprio_array[4]
  /\ instruction = "pick up bowl"

RECURSIVE SumOfDeltas(_, _)
\* the component-wise sum of the translation deltas of entries 1..k
SumOfDeltas(chunk, k) ==
  IF k = 0 THEN <<0, 0, 0>>
  ELSE [i \in 1..3 |-> SumOfDeltas(chunk, k - 1)[i] + chunk[k].t[i]]

\* the position of the buffer's newest frame plus the deltas of entries 1..k
PositionAfter(k) ==
  [i \in 1..3 |-> dec.obs.t[i] + SumOfDeltas(dec.chunk, k)[i]]

\* C19: current_pose starts at the pose of the buffer's newest frame and is
\* replaced by each absolute pose computed; every action produced from the
\* k-th entry, all five of a transition included, has the position of the
\* newest frame plus the sum of the translation deltas of entries 1..k, which
\* no rotation touches.
C19_PositionIsSumOfDeltas ==
  /\ dec.i = 0 => dec.d.cur = [t |-> dec.obs.t, r |-> Mat2Euler(dec.obs.R)]
  /\ PlanDecoded =>
       /\ dec.d.cur.t = PositionAfter(dec.i)
       /\ dec.d.cur = Pose6(PlanVal(PlanNew[1]))
       /\ \A k \in DOMAIN PlanNew : PlanVal(PlanNew[k]).t = PositionAfter(dec.i)

C19_Witness ==
  /\ PlanDecoded /\ dec.i = 3
  /\ dec.obs.t = <<1, 0, 0>>
  /\ dec.chunk[1].r # <<0, 0, 0>>
  /\ Len(PlanNew) = 5
  /\ PlanVal(PlanNew[1]).t = <<2, 0, -2>>
  /\ PlanVal(PlanNew[5]).t = <<2, 0, -2>>

\* a reply whose chunk is one entry with zero rotation delta and gripper field 0
OneStillEntry(resp) ==
  /\ resp.kind = "ok"
  /\ Len(resp.result) = 1
  /\ resp.result[1].ok
  /\ resp.result[1].r = <<0, 0, 0>>
  /\ resp.result[1].g = 0

\* C20: the first step of a freshly constructed agent whose reply is a chunk of
\* one entry with zero rotation delta and gripper field 0 sends exactly one
\* request and returns an action whose gripper field is the negated zero and
\* whose position is the current frame's position plus the entry's translation
\* delta; afterwards the queue is empty and finger_state is still open.
C20_FirstStepEndToEnd ==
  [][ (ret = NoRet /\ OneStillEntry(response')) =>
        /\ calls' = <<"send", "recv">>
        /\ request' # NoRequest
        /\ ret'.kind = "ok"
        /\ ret'.action.g = -0
        /\ \A i \in 1..3 :
             ret'.action.t[i] = proprio_history'[4].t[i] + response'.result[1].t[i]
        /\ ret'.bbox = response'.bbox
        /\ Len(pred_actions') = 0
        /\ finger_state' = 1 ]_vars

C20_Witness ==
  /\ OneStillEntry(response)
  /\ response.result[1].t = <<1, 0, 0>>
  /\ \A k \in 1..4 : proprio_history[k] = [t |-> <<1, 0, 0>>, r |-> <<0, 0, 1>>, g |-> 1]
  /\ ret.kind = "ok"
  /\ ret.action.t = <<2, 0, 0>>
  /\ ret.action.g = 0
  /\ Len(pred_actions) = 0
  /\ finger_state = 1

(***************************************************************************)
(* C21: for every current_pose, composing it with a delta whose six pose   *)
(* scalars are all zero returns the same six-scalar pose.                  *)
(***************************************************************************)
Composed == pose'.deltas # pose.deltas

LastDelta(c) == c.deltas[Len(c.deltas)]

ZeroPoseDelta(delta) == delta.t = <<0, 0, 0>> /\ delta.r = <<0, 0, 0>>

InEulerRange(r) == r[2] \in {-1, 0, 1} /\ (r[2] # 0 => r[3] = 0)

ThenRot(p, a, b) == DeltaToAbs(b, Pose6(DeltaToAbs(a, p))).r

C22_DeltaRotationOnTheLeft ==
  [][ Composed =>
        /\ Euler2Mat(CurrentPose(pose').r)
             = MatMul(Euler2Mat(LastDelta(pose').r), Euler2Mat(CurrentPose(pose).r))
        /\ Len(pose'.deltas) = 2 =>
             /\ CurrentPose(pose').r
                  = ThenRot(pose.start, pose'.deltas[1], pose'.deltas[2])
             /\ (CurrentPose(pose').r
                   = ThenRot(pose.start, pose'.deltas[2], pose'.deltas[1]))
                <=> (MatMul(Euler2Mat(pose'.deltas[2].r), Euler2Mat(pose'.deltas[1].r))
                       = MatMul(Euler2Mat(pose'.deltas[1].r),
                                Euler2Mat(pose'.deltas[2].r))) ]_vars

\* two rotation deltas whose order matters
C22_Witness ==
  /\ Len(pose.deltas) = 2
  /\ pose.deltas[1].r = <<1, 0, 0>>
  /\ pose.deltas[2].r = <<0, 0, 1>>
  /\ pose.start.r = <<0, 0, 0>>
  /\ pose.out[2].r # ThenRot(pose.start, pose.deltas[2], pose.deltas[1])

(***************************************************************************)
(* C23: throughout the loop last_finger_state equals self.finger_state,    *)
(* and both are the most recent nonzero gripper field of the entries       *)
(* processed so far, or the finger_state the loop started with when there  *)
(* is none; so after the loop finger_state is the last nonzero gripper     *)
(* field of the chunk, if any.                                             *)
(***************************************************************************)
PlanNonZero == { k \in DOMAIN dec.chunk : dec.chunk[k].g # 0 }

C23_LastFingerStateEqualsFingerState ==
  /\ dec.d.lfs = dec.d.fs
  /\ dec.d.fs = PlanReference(dec.i + 1)
  /\ dec.i = 0 => dec.d.fs = dec.fs0
  /\ PlanDone /\ PlanNonZero # {} => dec.d.fs = dec.chunk[LastOf(PlanNonZero)].g
  /\ PlanDone /\ PlanNonZero = {} => dec.d.fs = dec.fs0

\* a repeated value, a transition and a zero, in that order
C23_Witness ==
  /\ PlanDone
  /\ PlanGrips = <<1, -1, 0>> /\ dec.fs0 = 1
  /\ dec.d.lfs = -1
  /\ dec.d.fs = -1
  /\ dec.prev.lfs = -1
  /\ dec.prev.fs = -1

(***************************************************************************)
(* C24: self.finger_state is never zero, so no frame of the buffer, and no *)
(* frame of a request, has a zero gripper indicator, whatever chunks the   *)
(* server returns.                                                         *)
(***************************************************************************)
FrameGrips(h) == { h[k].g : k \in DOMAIN h }

C24_FingerStateNeverZero ==
  /\ finger_state # 0
  /\ 0 \notin FrameGrips(proprio_history)
  /\ 0 \notin FrameGrips(request.proprio_array)

\* a chunk with a transition and then a zero entry was decoded: the zero
\* entry waits in the queue and finger_state is the transition's target
C24_Witness ==
  /\ ret.kind = "ok"
  /\ response.kind = "ok"
  /\ Len(response.result) = 2
  /\ response.result[1].g = -1
  /\ response.result[2].g = 0
  /\ finger_state = -1
  /\ Len(pred_actions) = 5
  /\ heap[pred_actions[5].ref].g = 0

(***************************************************************************)
(* C25: the in-place sign flip of the emitted action changes no action     *)
(* still queued: the queued items reference distinct arrays, a step leaves *)
(* the arrays of the remaining items as they were appended, and the        *)
(* arm-only action and the four copies of a transition are emitted by      *)
(* consecutive steps, the copies each with the negated target.             *)
(***************************************************************************)
Refs(q) == { q[k].ref : k \in DOMAIN q }

\* the entry the refill of this step decoded first is a gripper transition
FirstIsTransition(resp, fs) == 1 \in TransitionsOf(StepChunk(resp), fs)

C25_FlipLeavesQueueAlone ==
  [][ ret'.kind = "ok" =>
        /\ Cardinality(Refs(pred_actions')) = Len(pred_actions')
        /\ Len(pred_actions) > 0 =>
             /\ Stored(pred_actions', heap') = Tail(Stored(pred_actions, heap))
             /\ ret'.action.g = -heap[pred_actions[1].ref].g
        /\ Len(pred_actions) = 0 =>
             /\ Stored(pred_actions', heap') = Tail(enqueued')
             /\ FirstIsTransition(response', finger_state) =>
                  /\ Len(pred_actions') >= GRIP_TRANSITION_ACTIONS
                  /\ ret'.action.g = 0
                  /\ \A k \in 1..GRIP_TRANSITION_ACTIONS :
                       /\ heap'[pred_actions'[k].ref].g = response'.result[1].g
                       /\ Pose6(heap'[pred_actions'[k].ref]) = Pose6(ret'.action) ]_vars

\* the third copy of a transition to -1 was just emitted with +1, after two
\* earlier flips, and the fourth still waits with -1
C25_Witness ==
  /\ ret.kind = "ok"
  /\ calls = << >>
  /\ finger_state = -1
  /\ ret.action.g = 1
  /\ Len(pred_actions) = 1
  /\ heap[pred_actions[1].ref].g = -1
  /\ Pose6(heap[pred_actions[1].ref]) = Pose6(ret.action)

(***************************************************************************)
(* C28: log_frame raises RuntimeError exactly when no recording is active  *)
(* (before the first start_recording, and after a stop_recording until the *)
(* next start_recording) and writes one frame otherwise; stop_recording    *)
(* with no active recording changes nothing, and one with an active        *)
(* recording converts the video once and removes the original.             *)
(***************************************************************************)
Recording(v) == v.video_writer.open

\* the fields and files of the logger, without the record of the last call
LoggerState(v) ==
  <<v.video_writer, v.video_name, v.new_video_name, v.files, v.converted>>

C28_LogFrameOnlyWhileRecording ==
  [][ /\ video.started = 0 => ~Recording(video)
      /\ video'.last = "start_recording" => Recording(video')
      /\ video'.last = "stop_recording" =>
           /\ ~Recording(video')
           /\ video'.exc = ""
           /\ ~Recording(video) => LoggerState(video') = LoggerState(video)
           /\ Recording(video) =>
                /\ Len(video'.converted) = Len(video.converted) + 1
                /\ video'.converted[Len(video'.converted)].from = video.video_name
                /\ video'.converted[Len(video'.converted)].to = video'.new_video_name
                /\ video'.new_video_name.suffix \in {"_success", "_fail"}
                /\ video'.new_video_name \in video'.files
                /\ video.video_name \notin video'.files
      /\ video'.last = "log_frame" =>
           /\ video'.exc = (IF Recording(video) THEN "" ELSE "RuntimeError")
           /\ ~Recording(video) => LoggerState(video') = LoggerState(video)
           /\ Recording(video) =>
                video'.video_writer.frames = video.video_writer.frames + 1 ]_vars

\* stop_recording was called twice in a row after one recording: one conversion
C28_Witness ==
  /\ video.last = "stop_recording"
  /\ video.before = "stop_recording"
  /\ video.started = 1
  /\ ~Recording(video)
  /\ Len(video.converted) = 1
  /\ video.new_video_name = Suffixed(X264Name(VideoName(0)), TRUE)

(***************************************************************************)
(* C26: an iteration of stabilize_scene, which calls get_current_proprio,  *)
(* leaves the buffer, the queue, finger_state and the socket as they were  *)
(* and sends nothing; the action it gives env.step is the frame of its     *)
(* observation with the gripper scalar -1; so the first agent step finds   *)
(* an empty buffer and an empty queue, pads the buffer with its own frame  *)
(* and sends a request.                                                    *)
(***************************************************************************)
Stabilized == episode'.stabilized = episode.stabilized + 1

FirstAgentStep == episode.step = 0 /\ episode'.step = 1

C26_GetCurrentProprioIsReadOnly ==
  [][ /\ Stabilized =>
           /\ UNCHANGED <<proprio_history, pred_actions, heap, finger_state,
                          awaiting, calls, request, instruction>>
           /\ request' = NoRequest
           /\ calls' = << >>
           /\ Pose6(episode'.env_action)
                = Pose6(GetCurrentProprio(episode.obs, finger_state))
           /\ episode'.env_action.g = -1
      /\ FirstAgentStep =>
           /\ proprio_history = << >>
           /\ pred_actions = << >>
           /\ finger_state = GRIPPER_OPEN
           /\ calls' # << >>
           /\ calls'[1] = "send"
           /\ request'.proprio_array
                = [k \in 1..PROPRIO_HISTORY_SIZE |->
                     GetCurrentProprio(episode.obs, GRIPPER_OPEN)] ]_vars

\* the first agent step after two stabilization iterations refilled
C26_Witness ==
  /\ episode.stabilized = 2
  /\ episode.step = 1
  /\ calls = <<"send", "recv">>
  /\ ret.kind = "ok"
  /\ Len(request.proprio_array) = PROPRIO_HISTORY_SIZE
  /\ request.proprio_array[1] = request.proprio_array[PROPRIO_HISTORY_SIZE]

(***************************************************************************)
(* C27: while no call raises, every iteration of the main loop calls       *)
(* agent.step, env.step (with the action agent.step returned) and          *)
(* log_frame once each in that order and advances the iteration count,     *)
(* which never exceeds max_steps; the loop returns at the first iteration  *)
(* whose env.step reports done; stop_recording is called exactly once,     *)
(* with success=True exactly when done was reported.                       *)
(***************************************************************************)
Iterated == episode.pc = "loop" /\ episode'.step = episode.step + 1

NothingRaised == ret'.kind = "ok" /\ video'.exc = ""

C27_EpisodeStopsOnceWithinMaxSteps ==
  [][ /\ episode'.step <= episode'.max_steps
      /\ episode.pc = "loop" => Iterated \/ episode'.pc = "returned"
      /\ episode'.pc \in {"stabilize", "loop"} => episode'.stops = << >>
      /\ Iterated /\ NothingRaised =>
           /\ SubSeq(episode'.trace, 1, 3) = <<"agent.step", "env.step", "log_frame">>
           /\ episode'.env_action = ret'.action
           /\ episode'.done <=> episode'.pc = "returned"
           /\ ~episode'.done =>
                /\ episode'.pc = "loop"
                /\ Len(episode'.trace) = 3
                /\ video'.video_writer.frames = video.video_writer.frames + 1
           /\ episode'.done => episode'.trace[Len(episode'.trace)] = "stop_recording"
      /\ episode'.pc = "returned" =>
           /\ episode'.stops = <<episode'.done>>
           /\ episode'.done => episode'.step >= 1
           /\ ~episode'.done => episode'.step = episode'.max_steps
           /\ Len(video'.converted) = 1
           /\ video'.new_video_name.suffix
                = (IF episode'.done THEN "_success" ELSE "_fail") ]_vars

\* done was reported in the second of three iterations
C27_Witness ==
  /\ episode.pc = "returned"
  /\ episode.max_steps = 3
  /\ episode.step = 2
  /\ episode.done
  /\ episode.stops = <<TRUE>>
  /\ Len(video.converted) = 1

(***************************************************************************)
(* C29: for trial_num >= 0 and parallel_env_num >= 1 the seed lists of the *)
(* processes are pairwise disjoint, none repeats a seed, and once all are  *)
(* written their union is {0, ..., trial_num - 1}; each process loads the  *)
(* list written for it, so every seed is loaded by exactly one process.    *)
(***************************************************************************)
Range(list) == { list[k] : k \in DOMAIN list }

Written(k) == JsonLoad(seeds.files[k])

LoadedBy(seed) == { l \in seeds.loaded : seed \in Range(l.seed_list) }

C29_SeedListsPartitionTrials ==
  /\ Len(seeds.files) = seeds.i
  /\ \A k \in DOMAIN seeds.files :
       /\ Cardinality(Range(Written(k))) = Len(Written(k))
       /\ Range(Written(k)) \subseteq 0..(seeds.trial_num - 1)
       /\ \A j \in DOMAIN seeds.files : j # k => Range(Written(j)) \cap Range(Written(k)) = {}
  /\ seeds.i = seeds.parallel_env_num =>
       UNION { Range(Written(k)) : k \in DOMAIN seeds.files } = 0..(seeds.trial_num - 1)
  /\ \A l \in seeds.loaded : l.seed_list = Written(l.proc + 1)
  /\ Cardinality(seeds.loaded) = seeds.parallel_env_num =>
       \A seed \in 0..(seeds.trial_num - 1) : Cardinality(LoadedBy(seed)) = 1

\* five trials over three processes, all loaded
C29_Witness ==
  /\ seeds.trial_num = 5
  /\ seeds.parallel_env_num = 3
  /\ seeds.loaded = { [proc |-> 0, seed_list |-> <<0, 3>>],
                      [proc |-> 1, seed_list |-> <<1, 4>>],
                      [proc |-> 2, seed_list |-> <<2>>] }

====
